---- MODULE Spec2Model ----
(***************************************************************************)
(* Model of src/slice-sampling.cpp (BTYDplus): the slice sampling engine   *)
(* slice_sample_cpp and the two batch drivers slice_sample_ma_liu and      *)
(* pcnbd_slice_sample.                                                     *)
(*                                                                         *)
(* Reals are modelled by an integer grid.  Positions are the integers      *)
(* -MaxPos..MaxPos; the two extreme points stand for the far tails of the  *)
(* axis (a position that steps beyond them stays there), and -INFINITY and *)
(* +INFINITY are the two values just outside.  A uniform draw from the     *)
(* open interval (a, b) is any grid point strictly between a and b.        *)
(* Log-density values are integers, with one value below all others for    *)
(* -infinity and one value for NaN, compared the IEEE way.                 *)
(***************************************************************************)
EXTENDS Integers, Sequences, FiniteSets

\* ------------------------------------------------------------ bounds
MaxPos == 3
MaxB == 2
MaxW == 3
MaxE == 1
MaxSteps == 2
MaxN == 2

\* ------------------------------------------------------------ values
NegInf == 0 - (MaxPos + 1)
PosInf == MaxPos + 1
Positions == (0 - MaxPos)..MaxPos

YBig == 8 * (MaxPos + 1) + MaxE + 1
YNegInf == 0 - YBig
YNaN == YBig

Abs(a) == IF a < 0 THEN 0 - a ELSE a
Max2(a, b) == IF a > b THEN a ELSE b
Min2(a, b) == IF a < b THEN a ELSE b

\* a > b on doubles: false as soon as one side is NaN
YGt(a, b) == a # YNaN /\ b # YNaN /\ a > b
\* y - e on doubles, e finite
YSub(y, e) == IF y = YNaN \/ y = YNegInf THEN y ELSE y - e

\* p - w and p + w on positions; the far tail absorbs the step
PSub(p, d) == Max2(p - d, 0 - MaxPos)
PAdd(p, d) == Min2(p + d, MaxPos)

RECURSIVE SumAbs(_, _)
SumAbs(p, n) == IF n = 0 THEN 0 ELSE Abs(p[n]) + SumAbs(p, n - 1)

RECURSIVE SumTwin(_, _)
SumTwin(p, n) ==
  IF n = 0 THEN 0 ELSE Min2(Abs(p[n] - 2), Abs(p[n] + 2)) + SumTwin(p, n - 1)

\* ------------------------------------------------------------ log-densities
Kinds == {"peak", "flat", "ridge", "gamma", "twin"}

\* double (*logfn)(NumericVector, NumericVector): a pure function of the
\* position and of the parameter bundle, which here only names the density
LogFn(p, params) ==
  LET n == Len(p) IN
  CASE params = "peak" -> 0 - SumAbs(p, n)
    [] params = "flat" -> 0
    [] params = "ridge" -> 0 - (2 * Abs(p[1] - p[n]) + Abs(p[1]))
    [] params = "twin" -> 0 - SumTwin(p, n)
    [] params = "gamma" ->
         IF \E k \in 1..n : p[k] < 0 THEN YNaN
         ELSE IF \E k \in 1..n : p[k] = 0 THEN YNegInf
         ELSE 0 - SumAbs(p, n)

\* ------------------------------------------------------------ random draws
\* rexp(1)[0]: a positive amount
Rexp == 1..MaxE
\* runif(1)[0] * w: strictly between 0 and w, and 0 when w is 0
RunifW(width) == IF width = 0 THEN {0} ELSE 1..(width - 1)
\* runif(1, a, b)[0]: a when a = b, else strictly between a and b
Runif(a, b) == IF a = b THEN {a} ELSE (a + 1)..(b - 1)

VARIABLES
  pc,      \* position of the call in slice_sample_cpp ("idle": not called)
  params,  \* parameter bundle forwarded to logfn
  x0,      \* the caller's start vector
  steps, w, lower, upper,
  x, L, R, xs,
  logy, logz, logys,
  r0, r1,
  i, j,    \* sweep counter (0-based) and coordinate (1-based)
  evalAt,  \* argument of the latest logfn call made while stepping out
  ret,     \* the returned vector, <<>> until the call returns
  fn,      \* the exported function that was called
  what,    \* the drivers' selector
  recs,    \* the drivers' per-record inputs
  dens,    \* the posterior the drivers' parameter bundles describe
  dw,      \* the width the drivers derive from the hyperparameters
  n,       \* the drivers' loop index (1-based)
  out,     \* the drivers' output vector
  engaged, \* per record: whether the engine was invoked for it
  dpc      \* position of the call in the driver

evars == <<pc, params, x0, steps, w, lower, upper, x, L, R, xs,
           logy, logz, logys, r0, r1, i, j, evalAt, ret>>

dvars == <<fn, what, recs, dens, dw, n, out, engaged, dpc>>

vars == <<evars, dvars>>

D == Len(x0)

NoEval == <<>>

\* ------------------------------------------------------------ engine
\* the state at the call of slice_sample_cpp(logfn, params, x0, steps, w, lower, upper)
Call(a_params, a_x0, a_steps, a_w, a_lower, a_upper) ==
  /\ pc = "start"
  /\ params = a_params
  /\ x0 = a_x0
  /\ steps = a_steps
  /\ w = a_w
  /\ lower = a_lower
  /\ upper = a_upper
  /\ x = <<>> /\ L = <<>> /\ R = <<>> /\ xs = <<>>
  /\ logy = 0 /\ logz = 0 /\ logys = 0
  /\ r0 = 0 /\ r1 = 0
  /\ i = 0 /\ j = 1
  /\ evalAt = NoEval
  /\ ret = <<>>

\* where the two for loops go after the body for (i, j) has run
LoopEnd(ii, jj) == IF jj < D THEN "draw" ELSE IF ii + 1 < steps THEN "draw" ELSE "done"

\* line 54 on an empty x0: the log-density functions read x[0] unchecked, one
\* past the end of the vector, so the value is whatever the memory holds
Garbage == {YNegInf, 0, YNaN}
EvalStart == IF D = 0 THEN Garbage ELSE {LogFn(x0, params)}

\* Enter with the sweep loop's test written i <= steps
EnterOffByOne ==
  /\ pc = "start"
  /\ x' = x0
  /\ L' = x0
  /\ R' = x0
  /\ logy' \in EvalStart
  /\ pc' = IF 0 <= steps /\ 0 < D THEN "draw" ELSE "done"
  /\ ret' = IF 0 <= steps /\ 0 < D THEN ret ELSE x0
  /\ UNCHANGED <<params, x0, steps, w, lower, upper, xs, logz, logys, r0, r1, i, j, evalAt>>
  /\ UNCHANGED dvars

\* lines 51-58: clone x0 three times, evaluate logfn once, enter the loops
Enter ==
  /\ pc = "start"
  /\ x' = x0
  /\ L' = x0
  /\ R' = x0
  /\ logy' \in EvalStart
  /\ pc' = IF 0 < steps /\ 0 < D THEN "draw" ELSE "done"
  /\ ret' = IF 0 < steps /\ 0 < D THEN ret ELSE x0
  /\ UNCHANGED <<params, x0, steps, w, lower, upper, xs, logz, logys, r0, r1, i, j, evalAt>>
  /\ UNCHANGED dvars

\* lines 60-65: threshold and first interval around x[j]
Draw ==
  /\ pc = "draw"
  /\ \E e \in Rexp, u \in RunifW(w) :
       /\ logz' = YSub(logy, e)
       /\ L' = [L EXCEPT ![j] = PSub(x[j], u)]
       /\ R' = [R EXCEPT ![j] = PAdd(x[j], w - u)]
  /\ pc' = "stepL"
  /\ evalAt' = NoEval
  /\ UNCHANGED <<params, x0, steps, w, lower, upper, x, xs, logy, logys, r0, r1, i, j, ret>>
  /\ UNCHANGED dvars

\* lines 66-67, loop condition true: one step to the left
StepLeft ==
  /\ pc = "stepL"
  /\ L[j] > lower
  /\ YGt(LogFn(L, params), logz)
  /\ evalAt' = L
  /\ L' = [L EXCEPT ![j] = PSub(L[j], w)]
  /\ UNCHANGED <<pc, params, x0, steps, w, lower, upper, x, R, xs, logy, logz, logys, r0, r1, i, j, ret>>
  /\ UNCHANGED dvars

\* StepLeftExit with the loop's test on the bound left out
StepLeftExitNoBound ==
  /\ pc = "stepL"
  /\ ~YGt(LogFn(L, params), logz)
  /\ evalAt' = L
  /\ pc' = "stepR"
  /\ UNCHANGED <<params, x0, steps, w, lower, upper, x, L, R, xs, logy, logz, logys, r0, r1, i, j, ret>>
  /\ UNCHANGED dvars

\* line 66, loop condition false (logfn is called only when L[j] > lower)
StepLeftExit ==
  /\ pc = "stepL"
  /\ ~(L[j] > lower /\ YGt(LogFn(L, params), logz))
  /\ evalAt' = IF L[j] > lower THEN L ELSE evalAt
  /\ pc' = "stepR"
  /\ UNCHANGED <<params, x0, steps, w, lower, upper, x, L, R, xs, logy, logz, logys, r0, r1, i, j, ret>>
  /\ UNCHANGED dvars

\* lines 68-69, loop condition true: one step to the right
StepRight ==
  /\ pc = "stepR"
  /\ R[j] < upper
  /\ YGt(LogFn(R, params), logz)
  /\ evalAt' = R
  /\ R' = [R EXCEPT ![j] = PAdd(R[j], w)]
  /\ UNCHANGED <<pc, params, x0, steps, w, lower, upper, x, L, xs, logy, logz, logys, r0, r1, i, j, ret>>
  /\ UNCHANGED dvars

\* line 68, loop condition false
StepRightExit ==
  /\ pc = "stepR"
  /\ ~(R[j] < upper /\ YGt(LogFn(R, params), logz))
  /\ evalAt' = IF R[j] < upper THEN R ELSE evalAt
  /\ pc' = "clip"
  /\ UNCHANGED <<params, x0, steps, w, lower, upper, x, L, R, xs, logy, logz, logys, r0, r1, i, j, ret>>
  /\ UNCHANGED dvars

\* Clip without the max and the min against the bounds
ClipNoBound ==
  /\ pc = "clip"
  /\ r0' = L[j]
  /\ r1' = R[j]
  /\ xs' = x
  /\ pc' = "shrink"
  /\ evalAt' = NoEval
  /\ UNCHANGED <<params, x0, steps, w, lower, upper, x, L, R, logy, logz, logys, i, j, ret>>
  /\ UNCHANGED dvars

\* lines 72-75: clip the interval to the bounds, copy x
Clip ==
  /\ pc = "clip"
  /\ r0' = Max2(L[j], lower)
  /\ r1' = Min2(R[j], upper)
  /\ xs' = x
  /\ pc' = "shrink"
  /\ evalAt' = NoEval
  /\ UNCHANGED <<params, x0, steps, w, lower, upper, x, L, R, logy, logz, logys, i, j, ret>>
  /\ UNCHANGED dvars

\* lines 77-80 and 87-88: a candidate above the threshold becomes the position
Accept ==
  /\ pc = "shrink"
  /\ \E c \in Runif(r0, r1) :
       LET cand == [xs EXCEPT ![j] = c] IN
       /\ YGt(LogFn(cand, params), logz)
       /\ xs' = cand
       /\ logys' = LogFn(cand, params)
       /\ x' = cand
       /\ logy' = LogFn(cand, params)
  /\ pc' = LoopEnd(i, j)
  /\ j' = IF j < D THEN j + 1 ELSE 1
  /\ i' = IF j < D THEN i ELSE i + 1
  /\ ret' = IF LoopEnd(i, j) = "done" THEN x' ELSE ret
  /\ UNCHANGED <<params, x0, steps, w, lower, upper, L, R, logz, r0, r1, evalAt>>
  /\ UNCHANGED dvars

\* Reject with the two ends of the interval exchanged
RejectSwapped ==
  /\ pc = "shrink"
  /\ \E c \in Runif(r0, r1) :
       LET cand == [xs EXCEPT ![j] = c] IN
       /\ ~YGt(LogFn(cand, params), logz)
       /\ xs' = cand
       /\ logys' = LogFn(cand, params)
       /\ r0' = IF c < x[j] THEN r0 ELSE c
       /\ r1' = IF c < x[j] THEN c ELSE r1
  /\ UNCHANGED <<pc, params, x0, steps, w, lower, upper, x, L, R, logy, logz, i, j, evalAt, ret>>
  /\ UNCHANGED dvars

\* lines 77-84: a candidate at or below the threshold becomes an end of the interval
Reject ==
  /\ pc = "shrink"
  /\ \E c \in Runif(r0, r1) :
       LET cand == [xs EXCEPT ![j] = c] IN
       /\ ~YGt(LogFn(cand, params), logz)
       /\ xs' = cand
       /\ logys' = LogFn(cand, params)
       /\ r0' = IF c < x[j] THEN c ELSE r0
       /\ r1' = IF c < x[j] THEN r1 ELSE c
  /\ UNCHANGED <<pc, params, x0, steps, w, lower, upper, x, L, R, logy, logz, i, j, evalAt, ret>>
  /\ UNCHANGED dvars

NextEngine ==
  \/ Enter
  \/ Draw
  \/ StepLeft
  \/ StepLeftExit
  \/ StepRight
  \/ StepRightExit
  \/ Clip
  \/ Accept
  \/ Reject

\* ------------------------------------------------------------ direct calls
Dims == {1, 2}
LowerBounds == {NegInf, 0 - MaxB, 0}
UpperBounds == {0, MaxB, PosInf}
Starts(d, lo, hi) == [1..d -> {p \in {0 - MaxB, 0, MaxB} : lo <= p /\ p <= hi}]

NoDriver ==
  /\ what = "" /\ recs = <<>> /\ dens = "" /\ dw = 0
  /\ n = 0 /\ out = <<>> /\ engaged = <<>> /\ dpc = "none"

\* slice_sample_cpp called with a start inside the bounds and a positive width
Init ==
  /\ \E k \in Kinds, d \in Dims, lo \in LowerBounds, hi \in UpperBounds,
        s \in 0..MaxSteps, ww \in 2..MaxW :
       \E st \in Starts(d, lo, hi) :
         Call(k, st, s, ww, lo, hi)
  /\ fn = "slice_sample_cpp"
  /\ NoDriver

Spec == Init /\ [][NextEngine]_vars

\* the call runs on: its next statement is always executed, and the uniform
\* draws of the shrinkage loop do not avoid an acceptable candidate for ever
FairSpec == Spec /\ WF_vars(NextEngine) /\ SF_vars(Accept)

\* ------------------------------------------------------------ batch drivers
FlatThreshold == -100
StepsLambdaMaLiu == 3
StepsMuMaLiu == 6
StepsK == 3
StepsLambda == 3
StepsTau == 6

\* NumericVector(double): the implicit conversion at the two calls of
\* slice_sample_ma_liu picks the size constructor, a vector of that many zeros
VectorOfSize(v) == [k \in 1..v |-> 0]
\* NumericVector::create(v)
Create(v) == <<v>>

Known(f, sel) ==
  \/ f = "slice_sample_ma_liu" /\ sel \in {"lambda", "mu"}
  \/ f = "pcnbd_slice_sample" /\ sel \in {"k", "lambda", "tau"}

\* Rf_pgamma(tx[i], k[i], 1/(k[i]*lambda[i]), 0, 1) < -100
TooFlat(rec) == rec.ltail < FlatThreshold

\* TauInit that only tests tau against Tcal
TauInitOneSided(rec) ==
  IF rec.cur > rec.Tcal
    THEN rec.tx + (rec.Tcal - rec.tx) \div 2
    ELSE rec.cur

\* lines 430-435
TauInit(rec) ==
  IF rec.cur > rec.Tcal \/ rec.cur < rec.tx
    THEN rec.tx + (rec.Tcal - rec.tx) \div 2
    ELSE rec.cur

\* the engine call of record rec: <<x0, steps, w, lower, upper>>
EngineArgs(f, sel, rec) ==
  CASE f = "slice_sample_ma_liu" /\ sel = "lambda" ->
         <<VectorOfSize(rec.cur), StepsLambdaMaLiu, dw, 0, PosInf>>
    [] f = "slice_sample_ma_liu" /\ sel = "mu" ->
         <<VectorOfSize(rec.cur), StepsMuMaLiu, dw, 0, PosInf>>
    [] f = "pcnbd_slice_sample" /\ sel = "k" ->
         <<Create(rec.cur), StepsK, dw, 0, PosInf>>
    [] f = "pcnbd_slice_sample" /\ sel = "lambda" ->
         <<Create(rec.cur), StepsLambda, dw, 0, PosInf>>
    [] f = "pcnbd_slice_sample" /\ sel = "tau" ->
         <<Create(TauInit(rec)), StepsTau, (rec.Tcal - rec.tx) \div 2, rec.tx, rec.Tcal>>

\* the call of slice_sample_cpp, as an action
Invoke(a_params, args) ==
  /\ pc' = "start"
  /\ params' = a_params
  /\ x0' = args[1]
  /\ steps' = args[2]
  /\ w' = args[3]
  /\ lower' = args[4]
  /\ upper' = args[5]
  /\ x' = <<>> /\ L' = <<>> /\ R' = <<>> /\ xs' = <<>>
  /\ logy' = 0 /\ logz' = 0 /\ logys' = 0
  /\ r0' = 0 /\ r1' = 0
  /\ i' = 0 /\ j' = 1
  /\ evalAt' = NoEval
  /\ ret' = <<>>

\* where the driver's for loop goes after the body for record n
DriverLoopEnd == IF n < Len(recs) THEN "loop" ELSE "done"

\* lines 269-272, 421-424, 436: a known selector calls the engine
DriverCall ==
  /\ dpc = "loop"
  /\ Known(fn, what)
  /\ ~(what = "tau" /\ TooFlat(recs[n]))
  /\ Invoke(dens, EngineArgs(fn, what, recs[n]))
  /\ engaged' = [engaged EXCEPT ![n] = TRUE]
  /\ dpc' = "call"
  /\ UNCHANGED <<fn, what, recs, dens, dw, n, out>>

\* the [0] of the returned vector; read one past the end when it is empty
First(v) == IF Len(v) = 0 THEN Positions ELSE {v[1]}

\* out[i] = slice_sample_cpp(...)[0]
DriverReturn ==
  /\ dpc = "call"
  /\ pc = "done"
  /\ \E v \in First(ret) : out' = [out EXCEPT ![n] = v]
  /\ pc' = "idle"
  /\ dpc' = DriverLoopEnd
  /\ n' = n + 1
  /\ UNCHANGED <<params, x0, steps, w, lower, upper, x, L, R, xs,
                 logy, logz, logys, r0, r1, i, j, evalAt, ret>>
  /\ UNCHANGED <<fn, what, recs, dens, dw, engaged>>

\* lines 426-428: the tau posterior is too flat, draw uniformly
DriverFlat ==
  /\ dpc = "loop"
  /\ Known(fn, what)
  /\ what = "tau" /\ TooFlat(recs[n])
  /\ \E v \in Runif(recs[n].tx, recs[n].Tcal) : out' = [out EXCEPT ![n] = v]
  /\ dpc' = DriverLoopEnd
  /\ n' = n + 1
  /\ UNCHANGED evars
  /\ UNCHANGED <<fn, what, recs, dens, dw, engaged>>

\* lines 269-273, 421-438: no branch matches the selector, out[i] is left alone
DriverSkip ==
  /\ dpc = "loop"
  /\ ~Known(fn, what)
  /\ dpc' = DriverLoopEnd
  /\ n' = n + 1
  /\ UNCHANGED evars
  /\ UNCHANGED <<fn, what, recs, dens, dw, out, engaged>>

NextDriver ==
  \/ NextEngine
  \/ DriverCall
  \/ DriverReturn
  \/ DriverFlat
  \/ DriverSkip

\* (tx, Tcal) with tx <= Tcal; the half width is a grid point and leaves room
\* for a draw strictly inside (0, w)
Windows ==
  {<<0, 0>>} \cup
  {win \in ((0 - MaxB)..MaxB) \X ((0 - MaxB)..MaxB) :
     win[2] - win[1] >= 4 /\ (win[2] - win[1]) % 2 = 0}
TauValues == {0 - MaxPos, 0 - MaxB, 0, MaxPos}
Records(sel) ==
  IF sel = "tau"
    THEN {[tx |-> win[1], Tcal |-> win[2], cur |-> c, ltail |-> lt] :
            win \in Windows, c \in TauValues,
            lt \in {FlatThreshold - 1, FlatThreshold}}
    ELSE {[tx |-> 0, Tcal |-> 0, cur |-> c, ltail |-> FlatThreshold] : c \in 0..2}
Selectors == {"k", "lambda", "mu", "tau", "other"}

RECURSIVE SeqsUpTo(_, _)
SeqsUpTo(S, len) ==
  IF len = 0 THEN {<<>>}
  ELSE LET shorter == SeqsUpTo(S, len - 1) IN
       shorter \cup {Append(q, e) : q \in shorter, e \in S}

\* slice_sample_ma_liu or pcnbd_slice_sample called on N >= 1 records
DriverInit ==
  /\ fn \in {"slice_sample_ma_liu", "pcnbd_slice_sample"}
  /\ what \in Selectors
  /\ recs \in SeqsUpTo(Records(what), MaxN) \ {<<>>}
  /\ dens \in Kinds
  /\ dw \in 2..MaxW
  /\ n = 1
  /\ out = [k \in 1..Len(recs) |-> 0]
  /\ engaged = [k \in 1..Len(recs) |-> FALSE]
  /\ dpc = "loop"
  /\ pc = "idle"
  /\ params = "" /\ x0 = <<>> /\ steps = 0 /\ w = 0 /\ lower = 0 /\ upper = 0
  /\ x = <<>> /\ L = <<>> /\ R = <<>> /\ xs = <<>>
  /\ logy = 0 /\ logz = 0 /\ logys = 0
  /\ r0 = 0 /\ r1 = 0
  /\ i = 0 /\ j = 1
  /\ evalAt = NoEval
  /\ ret = <<>>

DriverSpec == DriverInit /\ [][NextDriver]_vars

\* ------------------------------------------------------------ properties
Finite(y) == y # YNegInf /\ y # YNaN
InsideBounds(v) == \A k \in 1..Len(v) : lower <= v[k] /\ v[k] <= upper
Looping == pc \in {"draw", "stepL", "stepR", "clip", "shrink"}

\* C1: called with w > 0, lower <= upper and x0 inside the bounds, every
\* coordinate of the position x stays inside [lower, upper] in every state of
\* the run, and so does every coordinate of the returned vector.
BoundRespect ==
  /\ pc # "start" => Len(x) = D /\ InsideBounds(x)
  /\ pc = "done" => Len(ret) = D /\ InsideBounds(ret)

\* a call of two sweeps over two coordinates, with finite bounds, has returned
\* a position other than its start
BoundRespectWitness ==
  /\ pc = "done" /\ steps >= 2 /\ D = 2
  /\ lower = 0 - MaxB /\ upper = MaxB
  /\ ret # x0

\* the grid cannot follow the run further: the sampling interval is narrower
\* than the grid, no grid point lies strictly between r0 and r1 (on the reals
\* the draw from (r0, r1) still has values to take)
BelowResolution == pc = "shrink" /\ Runif(r0, r1) = {}

\* C2: every call with steps >= 1, w > 0, x0 inside the bounds and a
\* log-density finite at x0 returns, whether the bounds are finite or not
\* (as far as the grid follows the run).
StartOK == steps >= 1 /\ Finite(LogFn(x0, params))
Termination == StartOK => <>(pc = "done" \/ BelowResolution)

\* C2, amended: with both bounds finite, both stepping-out loops exit in every
\* coordinate update, every shrinkage loop accepts a candidate above logz, and
\* the call returns (as far as the grid follows the run).
TerminationFiniteBounds ==
  /\ (StartOK /\ lower # NegInf /\ upper # PosInf) =>
       <>(pc = "done" \/ BelowResolution)
  /\ [][pc = "shrink" /\ pc' # "shrink" => YGt(logy', logz)]_vars

\* a call of two sweeps with finite bounds and a finite start has returned,
\* the last shrinkage loop having rejected a candidate below x[j]
TerminationWitness ==
  /\ pc = "done" /\ steps >= 2
  /\ lower = 0 - MaxB /\ upper = MaxB
  /\ Finite(LogFn(x0, params))
  /\ r0 > lower /\ r0 > L[D]
  /\ ret # x0

\* C3: when the log-density at x0 is -infinity or NaN the call ends in an
\* error: it neither iterates in the loops nor returns a position.
FailFastOnDegenerateStart ==
  (pc # "start" /\ ~Finite(LogFn(x0, params))) => ~Looping /\ pc # "done"

\* C4: a selector that names no branch makes the driver fail: it never
\* returns an output vector.
UnknownSelectorFails == ~Known(fn, what) => dpc # "done"

\* C5: with steps = 0 the call goes from its entry straight to its return, the
\* returned vector and x equal x0 in every coordinate, and x0 is not written.
ZeroSteps ==
  /\ [](steps = 0 => /\ pc \in {"start", "done"}
                     /\ (pc = "done" => ret = x0 /\ x = x0))
  /\ [][steps = 0 => x0' = x0]_vars

\* a call with steps = 0 on a start of two different coordinates has returned
ZeroStepsWitness ==
  /\ steps = 0 /\ pc = "done" /\ D = 2
  /\ x0[1] # x0[2]
  /\ ret = x0

\* C7: every log-density evaluation made while stepping out coordinate j is at
\* a point that equals x in all coordinates other than j; hence when stepping
\* out ends, each endpoint is at or beyond its bound or has a log-density, at
\* x with coordinate j set to the endpoint, of at most logz.
SteppingOutAtCurrentPosition ==
  /\ evalAt # NoEval => \A k \in 1..D : k # j => evalAt[k] = x[k]
  /\ pc = "clip" =>
       /\ \/ L[j] <= lower
          \/ ~YGt(LogFn([x EXCEPT ![j] = L[j]], params), logz)
       /\ \/ R[j] >= upper
          \/ ~YGt(LogFn([x EXCEPT ![j] = R[j]], params), logz)

\* C8: L[j] <= x[j] <= R[j] when stepping out ends, r0 <= x[j] <= r1 after
\* the clip and after every rejected draw; a rejected candidate below x[j]
\* replaces r0 only, any other rejected candidate replaces r1 only.
ContainmentInvariant ==
  /\ [](/\ pc = "clip" => L[j] <= x[j] /\ x[j] <= R[j]
        /\ pc = "shrink" => r0 <= x[j] /\ x[j] <= r1)
  /\ [][pc = "shrink" /\ pc' = "shrink" =>
          IF xs'[j] < x[j] THEN r0' = xs'[j] /\ r1' = r1
                           ELSE r1' = xs'[j] /\ r0' = r0]_vars

\* in the second sweep, rejected candidates have replaced both ends of the
\* clipped interval
ContainmentWitness ==
  /\ pc = "shrink" /\ i >= 1
  /\ r0 > Max2(L[j], lower)
  /\ r1 < Min2(R[j], upper)

\* C9: a shrinkage iteration that rejects its candidate strictly reduces
\* r1 - r0 and changes exactly one of r0 and r1; no iteration increases r1 - r0.
ShrinkageProgress ==
  [][pc = "shrink" =>
       /\ r1' - r0' <= r1 - r0
       /\ pc' = "shrink" => /\ r1' - r0' < r1 - r0
                            /\ (r0' # r0) # (r1' # r1)]_vars

\* C10: in pcnbd_slice_sample with what = "tau" and tx <= Tcal, every output
\* written lies in [tx, Tcal]; a record that meets the flatness criterion does
\* not invoke the engine, any other record invokes it with bounds [tx, Tcal]
\* and a start that is tau when tau is in [tx, Tcal] and the midpoint otherwise.
TauInWindow ==
  (fn = "pcnbd_slice_sample" /\ what = "tau") =>
    \A k \in 1..Len(recs) :
      LET rec == recs[k] IN
      /\ k < n => rec.tx <= out[k] /\ out[k] <= rec.Tcal
      /\ TooFlat(rec) => ~engaged[k]
      /\ (~TooFlat(rec) /\ k < n) => engaged[k]
      /\ (k = n /\ dpc = "call") =>
           /\ lower = rec.tx /\ upper = rec.Tcal
           /\ Len(x0) = 1
           /\ lower <= x0[1] /\ x0[1] <= upper
           /\ IF rec.tx <= rec.cur /\ rec.cur <= rec.Tcal
                THEN x0[1] = rec.cur
                ELSE 2 * x0[1] = rec.tx + rec.Tcal

\* a call on two records has returned: the first, with tau above its window,
\* went through the engine and moved off the midpoint; the second was too flat
TauInWindowWitness ==
  /\ fn = "pcnbd_slice_sample" /\ what = "tau" /\ dpc = "done"
  /\ Len(recs) = 2
  /\ engaged[1] /\ ~engaged[2]
  /\ recs[1].tx < recs[1].Tcal /\ recs[1].cur > recs[1].Tcal
  /\ 2 * out[1] # recs[1].tx + recs[1].Tcal

====
